---- MODULE Spec2Model ----
(***************************************************************************)
(* mb8600-clickhouse: the authenticated polling pipeline of mb8600.py.     *)
(*                                                                         *)
(* Three asyncio tasks share one event loop: MB8600.run (the supervisor),  *)
(* MB8600.export (login, then the poll loop) and                           *)
(* MB8600.insert_into_clickhouse (the sink writer).  A task runs from one  *)
(* await to the next without interruption, so every action below is the    *)
(* code between two suspension points, and the value of epc / spc / rpc    *)
(* names the await at which the task is suspended.                         *)
(*                                                                         *)
(* The modem and ClickHouse are the environment.  The modem hands out one  *)
(* fresh handshake (challenge, cookie, public key) per challenge request,  *)
(* keeps at most one authenticated session, and answers a status poll      *)
(* with "OK" exactly when the request carries the credentials of that      *)
(* session.  HMAC-MD5 is modelled as an injective pairing of key and       *)
(* message, and string concatenation as an injective pairing as well.      *)
(***************************************************************************)
EXTENDS Integers, Sequences, FiniteSets

\* ------------------------------------------------------------------ bounds
\* login() calls in one run (one handshake is issued per call)
MaxLogins == 3
\* poll cycles in one run
MaxCycles == 4
\* segments in a channel string
MaxSegments == 2
\* generate_hnap_auth() calls in one run of the clock
MaxCalls == 3
\* the clock runs from MaxClock * 10^6 ms before the 2 * 10^12 ms mark to
\* MaxClock * 10^6 ms after it
MaxClock == 2
\* CLICKHOUSE_QUEUE_LIMIT, the capacity of clickhouse_queue
clickhouse_queue_limit == 2

\* -------------------------------------------------------- program constants
\* MODEM_PASSWORD, the configured device secret
modem_password == 1
\* the placeholder key of generate_hnap_auth
withoutloginkey == 1

\* None, and the empty slots of the model
None == 0

VARIABLES
    \* --- MB8600.export
    epc,                 \* the await export() is suspended at
    modem_hnap_session,  \* self.modem_hnap_session
    modem_cookies,       \* export()'s local modem_cookies
    login_frame,         \* login()'s locals between its two requests
    request,             \* the status poll in flight
    pending,             \* the item of a clickhouse_queue.put() that is blocked
    cycle,               \* number of the current poll cycle
    loginCalls,          \* number of login() calls so far
    \* --- MB8600.insert_into_clickhouse
    spc,                 \* the await the sink writer is suspended at
    data,                \* the sink writer's local data
    \* --- MB8600.run and the process
    rpc,                 \* the await run() is suspended at
    stop_event,          \* self.stop_event
    closed,              \* self.session has been closed
    \* --- shared
    clickhouse_queue,    \* self.clickhouse_queue
    \* --- the modem
    modemSession,        \* the handshake of the session the modem holds
    \* --- what has happened so far (read by the properties only)
    hist,
    \* --- the pure functions, applied on their own
    parse,               \* export()'s locals while a modem_response is parsed
    hnap                 \* the clock and the Hnap_auth headers generated

pipelineVars == <<epc, modem_hnap_session, modem_cookies, login_frame, request,
                  pending, cycle, loginCalls, spc, data, rpc, stop_event, closed,
                  clickhouse_queue, modemSession, hist>>
pureVars == <<parse, hnap>>
vars == <<pipelineVars, pureVars>>

exportVars == <<epc, modem_hnap_session, modem_cookies, login_frame, request,
                pending, cycle, loginCalls>>
sinkVars == <<spc, data>>
runVars == <<rpc, closed>>

Range(s) == {s[i] : i \in 1..Len(s)}

\* --------------------------------------------------------------- the crypto
\* Room for every handshake number and for the device secret.
Radix == MaxLogins + 2

\* f'{a}{b}'
Concat(a, b) == a * Radix + b

\* hmac.new(key, msg, hashlib.md5).hexdigest().upper()
HMAC(key, msg) == key * Radix + msg

generate_private_key(public_key, challenge) ==
    HMAC(Concat(public_key, modem_password), challenge)

generate_login_password(private_key, challenge) ==
    HMAC(private_key, challenge)

\* The action names that are signed.
SoapAction(name) == IF name = "Login" THEN 1 ELSE 2

generate_hnap_auth(soap_action, private_key) ==
    HMAC(private_key, SoapAction(soap_action))

\* A clock value in milliseconds is written hi * 10^6 + lo, which keeps
\* 2 * 10^12 within the integers of the checker.
Millis(hi, lo) == [hi |-> hi, lo |-> lo]
NotAfter(a, b) == a.hi < b.hi \/ (a.hi = b.hi /\ a.lo <= b.lo)

\* math.floor(current_time) % 2000000000000
Reduce(current_time) ==
    [hi |-> current_time.hi % 2000000, lo |-> current_time.lo]

\* (mutant) the HMAC message is built from the clock value as read
generate_hnap_auth_at_RawMessage(now, soap_action, private_key) ==
    LET current_time == Reduce(now)
        soap_action_uri == SoapAction(soap_action)
        auth == [key |-> private_key,
                 msg |-> [time |-> now, uri |-> soap_action_uri]]
    IN  [auth |-> auth, time |-> current_time]

\* generate_hnap_auth() with its clock: the header is the HMAC of
\* f'{current_time}{soap_action_uri}' under the key, followed by current_time.
generate_hnap_auth_at(now, soap_action, private_key) ==
    LET current_time == Reduce(now)
        soap_action_uri == SoapAction(soap_action)
        auth == [key |-> private_key,
                 msg |-> [time |-> current_time, uri |-> soap_action_uri]]
    IN  [auth |-> auth, time |-> current_time]

\* The values time.time() * 1000 takes, on both sides of 2 * 10^12 ms.
ClockValues ==
    {Millis(hi, lo) : hi \in (2000000 - MaxClock)..(2000000 + MaxClock),
                      lo \in {0, 999999}}

\* ---------------------------------------------------------------- the modem
\* The LoginResponse to the challenge request of handshake h.
ChallengeOf(h) == [Challenge |-> h, Cookie |-> h, PublicKey |-> h]

\* The session context a complete handshake h leads to.
ContextOf(h) ==
    LET c == ChallengeOf(h)
        k == generate_private_key(c.PublicKey, c.Challenge)
    IN  [challenge |-> c.Challenge, uid |-> c.Cookie, public_key |-> c.PublicKey,
         private_key |-> k,
         login_password |-> generate_login_password(k, c.Challenge),
         hnap_auth |-> generate_hnap_auth("Login", k)]

\* The modem accepts a status poll that carries the cookies of the session
\* it holds and a header signed with that session's private key.
ModemAccepts(req) ==
    /\ modemSession # None
    /\ req.uid = ContextOf(modemSession).uid
    /\ req.PrivateKey = ContextOf(modemSession).private_key
    /\ req.Hnap_auth =
         generate_hnap_auth("GetMultipleHNAPs", ContextOf(modemSession).private_key)

\* ------------------------------------------------------ the modem's strings
\* A string of the modem is a sequence of tokens: the separators '|+|' and
\* '^', a word, an integer literal, a decimal literal with one digit after the
\* point (num.frac).  A field between two separators is a sequence of tokens:
\* one token when it is well formed, none when it is empty.
TokSep(text) == [kind |-> "sep", text |-> text, num |-> 0, frac |-> 0]
TokText(text) == [kind |-> "text", text |-> text, num |-> 0, frac |-> 0]
TokInt(n) == [kind |-> "int", text |-> "", num |-> n, frac |-> 0]
TokDec(n, f) == [kind |-> "dec", text |-> "", num |-> n, frac |-> f]

\* str.split(sep): the pieces between the separators, one piece at least
\* (the empty string splits into one empty piece).
RECURSIVE Split(_, _)
Split(str, sep) ==
    IF \A i \in 1..Len(str) : str[i] # sep
    THEN <<str>>
    ELSE LET i == CHOOSE k \in 1..Len(str) :
                      str[k] = sep /\ \A j \in 1..(k - 1) : str[j] # sep
         IN  <<SubSeq(str, 1, i - 1)>> \o Split(SubSeq(str, i + 1, Len(str)), sep)

\* int(field) and float(field) raise ValueError unless the field is a
\* literal they can read; float values are counted in hundredths.
IsInt(field) == Len(field) = 1 /\ field[1].kind = "int"
IsFloat(field) == Len(field) = 1 /\ field[1].kind \in {"int", "dec"}
int(field) == field[1].num
float(field) == field[1].num * 100 + field[1].frac * 10

\* What a piece of export()'s try body comes to: its value, or the exception
\* it raised.
Value(v) == [error |-> "none", value |-> v]
Raise(e) == [error |-> e, value |-> <<>>]

\* The SNR of a downstream channel: an 'OFDM PLC' channel that reports less
\* than 20.0 dB is corrected by 2.5.
CorrectedSnr_Inclusive(modulation, snr) ==
    IF modulation = <<TokText("OFDM PLC")>> /\ float(snr) <= 2000
    THEN (float(snr) * 5) \div 2
    ELSE float(snr)

CorrectedSnr(modulation, snr) ==
    IF modulation = <<TokText("OFDM PLC")>> /\ float(snr) < 2000
    THEN (float(snr) * 5) \div 2
    ELSE float(snr)

\* One pass of the downstream loop: the segment is split at '^' and unpacked
\* into ten names, the numbers are converted.  The frequency, in hundredths
\* of a MHz, times 1000000 is kept in Hz.
DownstreamChannel(channel) ==
    LET f == Split(channel, TokSep("^"))
    IN  IF Len(f) # 10
        THEN Raise("ValueError")
        ELSE LET modulation == f[3]
                 channel_id == f[4]
                 frequency == f[5]
                 power == f[6]
                 snr == f[7]
                 correcteds == f[8]
                 uncorrecteds == f[9]
             IN  IF /\ IsFloat(snr)
                    /\ IsInt(channel_id)
                    /\ IsFloat(frequency)
                    /\ IsFloat(power)
                    /\ IsInt(correcteds)
                    /\ IsInt(uncorrecteds)
                 THEN Value([channel_id |-> int(channel_id),
                             frequency |-> float(frequency) * 10000,
                             modulation |-> modulation,
                             power |-> float(power),
                             snr |-> CorrectedSnr(modulation, snr),
                             correcteds |-> int(correcteds),
                             uncorrecteds |-> int(uncorrecteds)])
                 ELSE Raise("ValueError")

\* One pass of the upstream loop: eight names; the width, in hundredths of a
\* MHz, times 1000 is kept in tens of Hz.
UpstreamChannel(channel) ==
    LET f == Split(channel, TokSep("^"))
    IN  IF Len(f) # 8
        THEN Raise("ValueError")
        ELSE LET modulation == f[3]
                 channel_id == f[4]
                 width == f[5]
                 frequency == f[6]
                 power == f[7]
             IN  IF /\ IsInt(channel_id)
                    /\ IsFloat(frequency)
                    /\ IsFloat(power)
                    /\ IsFloat(width)
                 THEN Value([channel_id |-> int(channel_id),
                             frequency |-> float(frequency) * 10000,
                             modulation |-> modulation,
                             power |-> float(power),
                             width |-> float(width) * 1000])
                 ELSE Raise("ValueError")

\* The for loops over the segments: each entry is appended in turn, the
\* first segment that raises ends the loop.
RECURSIVE DownstreamLoop(_, _)
DownstreamLoop(segments, downstream_channels) ==
    IF segments = <<>>
    THEN Value(downstream_channels)
    ELSE LET entry == DownstreamChannel(Head(segments))
         IN  IF entry.error # "none"
             THEN entry
             ELSE DownstreamLoop(Tail(segments),
                                 Append(downstream_channels, entry.value))

RECURSIVE UpstreamLoop(_, _)
UpstreamLoop(segments, upstream_channels) ==
    IF segments = <<>>
    THEN Value(upstream_channels)
    ELSE LET entry == UpstreamChannel(Head(segments))
         IN  IF entry.error # "none"
             THEN entry
             ELSE UpstreamLoop(Tail(segments),
                               Append(upstream_channels, entry.value))

\* (mutant) an empty channel string is taken to have no segments
ParseDownstream_SkipEmpty(modem_response) ==
    IF "MotoConnDownstreamChannel" \in modem_response.missing
    THEN Raise("KeyError")
    ELSE IF modem_response.MotoConnDownstreamChannel = <<>>
         THEN Value(<<>>)
         ELSE DownstreamLoop(Split(modem_response.MotoConnDownstreamChannel,
                                   TokSep("|+|")), <<>>)

\* modem_response[...]['MotoConnDownstreamChannel'].split('|+|') and the loop;
\* a key the response lacks raises KeyError.
ParseDownstream(modem_response) ==
    IF "MotoConnDownstreamChannel" \in modem_response.missing
    THEN Raise("KeyError")
    ELSE DownstreamLoop(Split(modem_response.MotoConnDownstreamChannel,
                              TokSep("|+|")), <<>>)

ParseUpstream(modem_response) ==
    IF "MotoConnUpstreamChannel" \in modem_response.missing
    THEN Raise("KeyError")
    ELSE UpstreamLoop(Split(modem_response.MotoConnUpstreamChannel,
                            TokSep("|+|")), <<>>)

\* An uptime string is a sequence of groups of digits with their unit:
\* '5 days ', '03h:', '21m:', '09s'.
UptimeUnits == <<"days", "h", "m", "s">>
NoGroup == [matched |-> FALSE, digits |-> 0]

\* UPTIME_REGEX.search(str).groups(): every group of the pattern is optional,
\* so the pattern matches at the start of any string; each group in turn
\* takes the next piece of the string if that has its unit, and is None if
\* it has not.
RECURSIVE UPTIME_REGEX(_, _)
UPTIME_REGEX(str, units) ==
    IF units = <<>>
    THEN <<>>
    ELSE IF str # <<>> /\ Head(str).unit = Head(units)
         THEN <<[matched |-> TRUE, digits |-> Head(str).digits]>>
                  \o UPTIME_REGEX(Tail(str), Tail(units))
         ELSE <<NoGroup>> \o UPTIME_REGEX(str, Tail(units))

\* The four additions to uptime: int(None) raises TypeError.
ParseUptime(modem_response) ==
    IF "MotoConnSystemUpTime" \in modem_response.missing
    THEN Raise("KeyError")
    ELSE LET uptime_groups ==
                 UPTIME_REGEX(modem_response.MotoConnSystemUpTime, UptimeUnits)
         IN  IF \E i \in 1..4 : ~uptime_groups[i].matched
             THEN Raise("TypeError")
             ELSE Value(uptime_groups[1].digits * 86400
                        + uptime_groups[2].digits * 3600
                        + uptime_groups[3].digits * 60
                        + uptime_groups[4].digits)

\* The row that is put on the queue; the two plain fields of the response
\* are read here.
BuildRow(modem_response, downstream_channels, upstream_channels, uptime) ==
    IF \/ "MotoConnConfigurationFileComment" \in modem_response.missing
       \/ "StatusSoftwareSfVer" \in modem_response.missing
    THEN Raise("KeyError")
    ELSE Value([modem_uptime |-> uptime,
                modem_model |-> "MB8600",
                downstream_channels |-> downstream_channels,
                upstream_channels |-> upstream_channels])

\* The try body of export() from the downstream loop to the row, as one
\* function of the response.
ParseResponse(modem_response) ==
    LET d == ParseDownstream(modem_response)
        u == ParseUpstream(modem_response)
        t == ParseUptime(modem_response)
    IN  IF d.error # "none" THEN d
        ELSE IF u.error # "none" THEN u
        ELSE IF t.error # "none" THEN t
        ELSE BuildRow(modem_response, d.value, u.value, t.value)

\* ------------------------------------------------- responses of the modem
\* A downstream segment as the modem writes it, ten fields with the empty
\* one after the last '^':  1^Locked^QAM256^20^531.0^0.6^40.9^12^0^
\* shape "short" lacks the last '^', shape "badid" has a word for its id.
DownstreamSegment(d) ==
    <<TokInt(d.id), TokSep("^"), TokText("Locked"), TokSep("^"),
      TokText(d.modulation), TokSep("^"),
      IF d.shape = "badid" THEN TokText("n/a") ELSE TokInt(d.id), TokSep("^"),
      TokDec(531, 0), TokSep("^"), TokDec(0, 6), TokSep("^"),
      TokDec(d.snr[1], d.snr[2]), TokSep("^"), TokInt(12), TokSep("^"),
      TokInt(0)>> \o (IF d.shape = "short" THEN <<>> ELSE <<TokSep("^")>>)

\* An upstream segment, eight fields:  1^Locked^SC-QAM^3^6.4^17.8^45.5^
UpstreamSegment(d) ==
    <<TokInt(d.id), TokSep("^"), TokText("Locked"), TokSep("^"),
      TokText(d.modulation), TokSep("^"), TokInt(d.id), TokSep("^"),
      TokDec(6, 4), TokSep("^"), TokDec(17, 8), TokSep("^"),
      TokDec(45, 5)>> \o (IF d.shape = "short" THEN <<>> ELSE <<TokSep("^")>>)

\* The segments joined by '|+|'.
RECURSIVE Join(_)
Join(segments) ==
    IF segments = <<>> THEN <<>>
    ELSE IF Len(segments) = 1 THEN Head(segments)
    ELSE Head(segments) \o <<TokSep("|+|")>> \o Join(Tail(segments))

\* The uptime string of the groups that are present, in their order.
RECURSIVE UptimeString(_, _)
UptimeString(groups, units) ==
    IF units = <<>>
    THEN <<>>
    ELSE (IF Head(groups).present
          THEN <<[unit |-> Head(units), digits |-> Head(groups).digits]>>
          ELSE <<>>) \o UptimeString(Tail(groups), Tail(units))

\* The GetMultipleHNAPsResponse of a combined result 'OK', as far as export()
\* reads it.
Response(input) ==
    [MotoConnDownstreamChannel |->
         Join([i \in 1..Len(input.downstream) |->
                   DownstreamSegment(input.downstream[i])]),
     MotoConnUpstreamChannel |->
         Join([i \in 1..Len(input.upstream) |->
                   UpstreamSegment(input.upstream[i])]),
     MotoConnSystemUpTime |-> UptimeString(input.uptime, UptimeUnits),
     missing |-> input.missing]

Down(id, modulation, n, f, shape) ==
    [id |-> id, modulation |-> modulation, snr |-> <<n, f>>, shape |-> shape]
Up(id, shape) == [id |-> id, modulation |-> "SC-QAM", shape |-> shape]
Group(digits) == [present |-> TRUE, digits |-> digits]
Absent == [present |-> FALSE, digits |-> 0]

DownstreamSamples ==
    {Down(1, "OFDM PLC", 15, 0, "ok"), Down(2, "OFDM PLC", 19, 9, "ok"),
     Down(3, "OFDM PLC", 20, 0, "ok"), Down(4, "OFDM PLC", 25, 0, "ok"),
     Down(5, "QAM256", 15, 0, "ok"), Down(6, "QAM256", 40, 9, "short"),
     Down(7, "QAM256", 40, 9, "badid")}
UpstreamSamples == {Up(1, "ok"), Up(2, "ok"), Up(3, "short")}
UptimeSamples ==
    {<<d, h, m, sec>> : d \in {Absent, Group(5)}, h \in {Absent, Group(0), Group(3)},
                        m \in {Absent, Group(5), Group(21)},
                        sec \in {Absent, Group(0), Group(9)}}
FieldNames == {"MotoConnDownstreamChannel", "MotoConnUpstreamChannel",
               "MotoConnSystemUpTime", "MotoConnConfigurationFileComment",
               "StatusSoftwareSfVer"}

SeqsUpTo(S, n) == UNION {[1..k -> S] : k \in 0..n}

\* '5 days 03h:21m:09s'
FullUptime == <<Group(5), Group(3), Group(21), Group(9)>>
GoodInput ==
    [downstream |-> <<Down(1, "OFDM PLC", 15, 0, "ok")>>,
     upstream |-> <<Up(1, "ok")>>, uptime |-> FullUptime, missing |-> {}]

\* The responses the parsers are applied to: every pair of channel strings
\* of up to MaxSegments segments, every uptime string, every missing field.
ParseInputs ==
    {[GoodInput EXCEPT !.downstream = d, !.upstream = u] :
         d \in SeqsUpTo(DownstreamSamples, MaxSegments),
         u \in SeqsUpTo(UpstreamSamples, MaxSegments)}
    \cup {[GoodInput EXCEPT !.uptime = t] : t \in UptimeSamples}
    \cup {[GoodInput EXCEPT !.missing = {k}] : k \in FieldNames}

\* The responses a status poll of the pipeline is answered with: one that
\* parses, a malformed segment, an uptime without days ('00h:05m:00s'), a
\* missing field, an empty channel string.
SamplePayloads ==
    <<GoodInput,
      [GoodInput EXCEPT !.downstream = <<Down(6, "QAM256", 40, 9, "short")>>],
      [GoodInput EXCEPT !.uptime = <<Absent, Group(0), Group(5), Group(0)>>],
      [GoodInput EXCEPT !.missing = {"StatusSoftwareSfVer"}],
      [GoodInput EXCEPT !.upstream = <<>>]>>

\* -------------------------------------------------------------------- Init
NoSession == [challenge |-> None, uid |-> None, public_key |-> None,
              private_key |-> None, login_password |-> None, hnap_auth |-> None]
NoCookies == [uid |-> None, PrivateKey |-> None]
NoFrame == [uid |-> None, PrivateKey |-> None, Hnap_auth |-> None,
            LoginPassword |-> None]
NoRequest == [uid |-> None, PrivateKey |-> None, Hnap_auth |-> None]

NoHist == [
    okLogins |-> {},         \* handshakes whose login request was answered OK
    badLogins |-> {},        \* handshakes of login() calls that raised
    lastLogin |-> "none",    \* the login() that succeeded last: initial, reauth
    stopBy |-> "none",       \* who set stop_event first: signal, export
    result |-> "none",       \* what the current cycle's poll came to
    logins |-> 0,            \* login() calls in the current cycle
    sleeps |-> 0,            \* interval sleeps finished since the last poll request
    gap |-> 0,               \* interval sleeps between the last two poll requests
    payload |-> 0,           \* the 'OK' response of the current cycle, if any
    parsed |-> {},           \* cycles whose response parsed into a record
    enqueued |-> <<>>,       \* items put on the queue, in order
    submitted |-> <<>>,      \* items handed to clickhouse.execute, in order
    accepted |-> {},         \* items whose submission succeeded
    failed |-> {},           \* items whose submission raised
    lastInsert |-> "none",   \* how the last submission ended: ok, fail
    delayed |-> FALSE,       \* a 5 s sleep has finished since the last submission
    cancelled |-> FALSE,     \* run() has cancelled the two tasks
    challenges |-> {},       \* handshakes whose challenge response was received
    onClosed |-> {}]         \* requests attempted on the closed ClientSession

\* Nothing is being parsed, no header has been generated.
NoParse ==
    [stage |-> "off", at |-> "none", input |-> GoodInput,
     downstream_channels |-> <<>>, upstream_channels |-> <<>>, uptime |-> 0,
     row |-> <<>>, error |-> "none"]
NoHnap == [stage |-> "off", now |-> Millis(0, 0), calls |-> <<>>]

PipelineInit ==
    /\ epc = "start"
    /\ modem_hnap_session = NoSession
    /\ modem_cookies = NoCookies
    /\ login_frame = NoFrame
    /\ request = NoRequest
    /\ pending = None
    /\ cycle = 0
    /\ loginCalls = 0
    /\ spc = "start"
    /\ data = None
    /\ rpc = "wait"
    /\ stop_event = FALSE
    /\ closed = FALSE
    /\ clickhouse_queue = <<>>
    /\ modemSession = None
    /\ hist = NoHist

Init ==
    /\ PipelineInit
    /\ parse = NoParse
    /\ hnap = NoHnap

\* ------------------------------------------------------------ MB8600.export
InitialLogin == epc \in {"start", "init_challenge", "init_login"}

\* The handlers and continuations below all say what becomes of
\* epc, request, cycle, stop_event and hist; h is hist as the step leaves it.

\* (mutant) the handler of the initial login() returns without stop_event.set()
ExportLoginFailed_NoStop(h) ==
    /\ epc' = "returned"
    /\ hist' = h
    /\ UNCHANGED <<request, cycle, stop_event>>

\* except Exception around the initial login(): log, stop_event.set(), return
ExportLoginFailed(h) ==
    /\ epc' = "returned"
    /\ stop_event' = TRUE
    /\ hist' = [h EXCEPT !.stopBy = IF stop_event THEN @ ELSE "export"]
    /\ UNCHANGED <<request, cycle>>

\* (mutant) the handler of the poll loop gives up as the initial one does
CycleFailed_Fatal(h) ==
    /\ epc' = "returned"
    /\ request' = NoRequest
    /\ stop_event' = TRUE
    /\ hist' = [h EXCEPT !.stopBy = IF stop_event THEN @ ELSE "export"]
    /\ UNCHANGED cycle

\* except Exception in the poll loop: log, then await asyncio.sleep(scrape_delay)
CycleFailed(h) ==
    /\ epc' = "except_sleep"
    /\ request' = NoRequest
    /\ hist' = h
    /\ UNCHANGED <<cycle, stop_event>>

\* login() raised: the handler of whoever called it
LoginRaised(h) ==
    LET h1 == [h EXCEPT !.badLogins = @ \cup {loginCalls'}]
    IN  IF InitialLogin THEN ExportLoginFailed(h1) ELSE CycleFailed(h1)

\* The status poll as export() builds it.
PollRequest(cookies) ==
    [uid |-> cookies.uid, PrivateKey |-> cookies.PrivateKey,
     Hnap_auth |-> generate_hnap_auth("GetMultipleHNAPs",
                                      modem_hnap_session.private_key)]

\* The top of the while loop, up to the await of the status poll.  A closed
\* ClientSession raises before anything is sent.
LoopTop(cookies, h) ==
    LET h1 == [h EXCEPT !.logins = 0, !.gap = h.sleeps, !.sleeps = 0,
                        !.payload = 0]
    IN  /\ cycle < MaxCycles
        /\ cycle' = cycle + 1
        /\ UNCHANGED stop_event
        /\ IF closed
           THEN /\ epc' = "except_sleep"
                /\ request' = NoRequest
                /\ hist' = [h1 EXCEPT !.result = "error",
                                      !.onClosed = @ \cup {"poll"}]
           ELSE /\ epc' = "poll"
                /\ request' = PollRequest(cookies)
                /\ hist' = [h1 EXCEPT !.result = "none"]

\* The challenge request of login(): no cookies, a header signed with the
\* placeholder key, an empty LoginPassword.
ChallengeRequest ==
    [uid |-> None, PrivateKey |-> None,
     Hnap_auth |-> generate_hnap_auth("Login", withoutloginkey),
     LoginPassword |-> None]

\* export() starts: login() sends the challenge request.
ExportStart ==
    /\ epc = "start"
    /\ UNCHANGED pureVars
    /\ loginCalls' = loginCalls + 1
    /\ IF closed
       THEN /\ login_frame' = NoFrame
            /\ LoginRaised([hist EXCEPT !.onClosed = @ \cup {"login"}])
       ELSE /\ login_frame' = ChallengeRequest
            /\ epc' = "init_challenge"
            /\ UNCHANGED <<request, cycle, stop_event, hist>>
    /\ UNCHANGED <<modem_hnap_session, modem_cookies, pending,
                   sinkVars, runVars, clickhouse_queue, modemSession>>

\* (mutant) the login request carries the cookies of the session stored
\* before this handshake
ChallengeReceived_StoredKey ==
    LET r == ChallengeOf(loginCalls)
        private_key == generate_private_key(r.PublicKey, r.Challenge)
        login_password == generate_login_password(private_key, r.Challenge)
        hnap_auth == generate_hnap_auth("Login", private_key)
        h1 == [hist EXCEPT !.challenges = @ \cup {loginCalls}]
    IN  /\ modem_hnap_session' =
             [challenge |-> r.Challenge, uid |-> r.Cookie,
              public_key |-> r.PublicKey, private_key |-> private_key,
              login_password |-> login_password, hnap_auth |-> hnap_auth]
        /\ IF closed
           THEN /\ login_frame' = NoFrame
                /\ LoginRaised([h1 EXCEPT !.onClosed = @ \cup {"login"}])
           ELSE /\ login_frame' =
                     [uid |-> modem_hnap_session.uid,
                      PrivateKey |-> modem_hnap_session.private_key,
                      Hnap_auth |-> hnap_auth, LoginPassword |-> login_password]
                /\ epc' = IF InitialLogin THEN "init_login" ELSE "reauth_login"
                /\ hist' = h1
                /\ UNCHANGED <<request, cycle, stop_event>>

\* login(): the challenge response arrives; the keys are derived, the session
\* data is stored and the login request is sent.
ChallengeReceived ==
    LET r == ChallengeOf(loginCalls)
        private_key == generate_private_key(r.PublicKey, r.Challenge)
        login_password == generate_login_password(private_key, r.Challenge)
        hnap_auth == generate_hnap_auth("Login", private_key)
        h1 == [hist EXCEPT !.challenges = @ \cup {loginCalls}]
    IN  /\ modem_hnap_session' =
             [challenge |-> r.Challenge, uid |-> r.Cookie,
              public_key |-> r.PublicKey, private_key |-> private_key,
              login_password |-> login_password, hnap_auth |-> hnap_auth]
        /\ IF closed
           THEN /\ login_frame' = NoFrame
                /\ LoginRaised([h1 EXCEPT !.onClosed = @ \cup {"login"}])
           ELSE /\ login_frame' =
                     [uid |-> r.Cookie, PrivateKey |-> private_key,
                      Hnap_auth |-> hnap_auth, LoginPassword |-> login_password]
                /\ epc' = IF InitialLogin THEN "init_login" ELSE "reauth_login"
                /\ hist' = h1
                /\ UNCHANGED <<request, cycle, stop_event>>

\* login(): the challenge request fails in transport, or its body is not the
\* JSON object expected.
ChallengeFailed ==
    /\ LoginRaised(hist)
    /\ UNCHANGED <<modem_hnap_session, login_frame>>

ChallengeResponse ==
    /\ epc \in {"init_challenge", "reauth_challenge"}
    /\ UNCHANGED pureVars
    /\ UNCHANGED <<modem_cookies, pending, loginCalls, sinkVars, runVars,
                   clickhouse_queue, modemSession>>
    /\ \/ ChallengeReceived
       \/ ChallengeFailed

\* The modem checks a login request against the handshake it issued last.
ModemVerifiesLogin(frame) ==
    /\ frame.uid = ContextOf(loginCalls).uid
    /\ frame.PrivateKey = ContextOf(loginCalls).private_key
    /\ frame.Hnap_auth = ContextOf(loginCalls).hnap_auth
    /\ frame.LoginPassword = ContextOf(loginCalls).login_password

\* login() returns: LoginResult = 'OK'.  The initial login goes on to build
\* modem_cookies and to enter the loop; a re-login goes on to its sleep.
LoginOK ==
    LET h1 == [hist EXCEPT !.okLogins = @ \cup {loginCalls},
                           !.lastLogin = IF InitialLogin THEN "initial" ELSE "reauth"]
    IN  /\ ModemVerifiesLogin(login_frame)
        /\ modemSession' = loginCalls
        /\ IF InitialLogin
           THEN /\ modem_cookies' = [uid |-> modem_hnap_session.uid,
                                     PrivateKey |-> modem_hnap_session.private_key]
                /\ LoopTop(modem_cookies', h1)
           ELSE /\ epc' = "reauth_sleep"
                /\ hist' = h1
                /\ UNCHANGED <<modem_cookies, request, cycle, stop_event>>

\* login() raises: LoginResult is not 'OK', or the request fails in transport.
LoginFailed ==
    /\ LoginRaised(hist)
    /\ UNCHANGED <<modem_cookies, modemSession>>

LoginResponse ==
    /\ epc \in {"init_login", "reauth_login"}
    /\ UNCHANGED pureVars
    /\ login_frame' = NoFrame
    /\ UNCHANGED <<modem_hnap_session, pending, loginCalls, sinkVars, runVars,
                   clickhouse_queue>>
    /\ \/ LoginOK
       \/ LoginFailed

\* (mutant) put() on a queue without maxsize
QueuePutItem_Unbounded(item, h) ==
    /\ clickhouse_queue' = Append(clickhouse_queue, item)
    /\ pending' = None
    /\ epc' = "finally_sleep"
    /\ hist' = [h EXCEPT !.enqueued = Append(@, item)]

\* clickhouse_queue.put(item): at once while there is room, else the task
\* waits as a putter with the item in hand.
QueuePutItem(item, h) ==
    IF Len(clickhouse_queue) < clickhouse_queue_limit
    THEN /\ clickhouse_queue' = Append(clickhouse_queue, item)
         /\ pending' = None
         /\ epc' = "finally_sleep"
         /\ hist' = [h EXCEPT !.enqueued = Append(@, item)]
    ELSE /\ pending' = item
         /\ epc' = "put"
         /\ hist' = h
         /\ UNCHANGED clickhouse_queue

\* The poll fails in transport, or its body is not the JSON object expected.
PollFailed ==
    /\ CycleFailed([hist EXCEPT !.result = "error"])
    /\ UNCHANGED <<pending, loginCalls, login_frame, clickhouse_queue>>

\* (mutant) the row is put on the queue as far as it was parsed
PollResultOK_PutPartial ==
    /\ UNCHANGED <<loginCalls, login_frame>>
    /\ \E p \in DOMAIN SamplePayloads :
         LET row == ParseResponse(Response(SamplePayloads[p]))
             h1 == [hist EXCEPT !.result = "OK", !.payload = p]
         IN  /\ QueuePutItem(cycle, IF row.error = "none"
                                    THEN [h1 EXCEPT !.parsed = @ \cup {cycle}]
                                    ELSE h1)
             /\ request' = NoRequest
             /\ UNCHANGED <<cycle, stop_event>>

\* GetMultipleHNAPsResult = 'OK': the response is parsed into one row, which
\* is put on the queue; a response that does not parse raises.
PollResultOK ==
    /\ UNCHANGED <<loginCalls, login_frame>>
    /\ \E p \in DOMAIN SamplePayloads :
         LET row == ParseResponse(Response(SamplePayloads[p]))
             h1 == [hist EXCEPT !.result = "OK", !.payload = p]
         IN  IF row.error = "none"
             THEN /\ QueuePutItem(cycle, [h1 EXCEPT !.parsed = @ \cup {cycle}])
                  /\ request' = NoRequest
                  /\ UNCHANGED <<cycle, stop_event>>
             ELSE /\ CycleFailed(h1)
                  /\ UNCHANGED <<pending, clickhouse_queue>>

\* (mutant) a rejected poll only sleeps: login() is not called
PollResultNotOK_NoLogin ==
    /\ epc' = "reauth_sleep"
    /\ request' = NoRequest
    /\ hist' = [hist EXCEPT !.result = "notOK"]
    /\ UNCHANGED <<pending, clickhouse_queue, loginCalls, login_frame, cycle,
                   stop_event>>

\* GetMultipleHNAPsResult is not 'OK': the session is taken to have expired
\* and login() is called, which sends its challenge request.
PollResultNotOK ==
    LET h1 == [hist EXCEPT !.result = "notOK", !.logins = @ + 1]
    IN  /\ loginCalls < MaxLogins
        /\ loginCalls' = loginCalls + 1
        /\ UNCHANGED <<pending, clickhouse_queue>>
        /\ IF closed
           THEN /\ login_frame' = NoFrame
                /\ LoginRaised([h1 EXCEPT !.onClosed = @ \cup {"login"}])
           ELSE /\ login_frame' = ChallengeRequest
                /\ epc' = "reauth_challenge"
                /\ request' = NoRequest
                /\ hist' = h1
                /\ UNCHANGED <<cycle, stop_event>>

PollResponse ==
    /\ epc = "poll"
    /\ UNCHANGED pureVars
    /\ UNCHANGED <<modem_hnap_session, modem_cookies, sinkVars, runVars,
                   modemSession>>
    /\ \/ PollFailed
       \/ ModemAccepts(request) /\ PollResultOK
       \/ ~ModemAccepts(request) /\ PollResultNotOK

\* A slot has come free: the blocked put() goes through.
QueuePut ==
    /\ epc = "put"
    /\ UNCHANGED pureVars
    /\ Len(clickhouse_queue) < clickhouse_queue_limit
    /\ QueuePutItem(pending, hist)
    /\ UNCHANGED <<modem_hnap_session, modem_cookies, login_frame, request, cycle,
                   loginCalls, sinkVars, runVars, stop_event, modemSession>>

\* The sleep after a re-login ends; continue runs the finally clause.
ReauthSleepDone ==
    /\ epc = "reauth_sleep"
    /\ UNCHANGED pureVars
    /\ epc' = "finally_sleep"
    /\ hist' = [hist EXCEPT !.sleeps = @ + 1]
    /\ UNCHANGED <<modem_hnap_session, modem_cookies, login_frame, request, pending,
                   cycle, loginCalls, sinkVars, runVars, stop_event,
                   clickhouse_queue, modemSession>>

\* The sleep of the except clause ends; the finally clause runs.
ExceptSleepDone ==
    /\ epc = "except_sleep"
    /\ UNCHANGED pureVars
    /\ epc' = "finally_sleep"
    /\ hist' = [hist EXCEPT !.sleeps = @ + 1]
    /\ UNCHANGED <<modem_hnap_session, modem_cookies, login_frame, request, pending,
                   cycle, loginCalls, sinkVars, runVars, stop_event,
                   clickhouse_queue, modemSession>>

\* The sleep of the finally clause ends; the next cycle begins.
FinallySleepDone ==
    /\ epc = "finally_sleep"
    /\ UNCHANGED pureVars
    /\ LoopTop(modem_cookies, [hist EXCEPT !.sleeps = @ + 1])
    /\ UNCHANGED <<modem_hnap_session, modem_cookies, login_frame, pending,
                   loginCalls, sinkVars, runVars, clickhouse_queue, modemSession>>

\* ------------------------------------------- MB8600.insert_into_clickhouse
\* (mutant) the failed item is put back on the queue
InsertFailed_Requeue(item, h) ==
    /\ spc' = "sleep"
    /\ clickhouse_queue' = Append(clickhouse_queue, item)
    /\ hist' = [h EXCEPT !.failed = @ \cup {item}, !.lastInsert = "fail",
                         !.delayed = FALSE]
    /\ UNCHANGED data

\* (mutant) the exception leaves the loop: the sink writer ends
InsertFailed_Exit(item, h) ==
    /\ spc' = "crashed"
    /\ hist' = [h EXCEPT !.failed = @ \cup {item}, !.lastInsert = "fail",
                         !.delayed = FALSE]
    /\ UNCHANGED <<data, clickhouse_queue>>

\* clickhouse.execute raised: log, then await asyncio.sleep(5)
InsertFailed(item, h) ==
    /\ spc' = "sleep"
    /\ hist' = [h EXCEPT !.failed = @ \cup {item}, !.lastInsert = "fail",
                         !.delayed = FALSE]
    /\ UNCHANGED <<data, clickhouse_queue>>

\* (mutant) the writer takes the newest item of the queue
SinkLoopTop_Lifo(h) ==
    IF clickhouse_queue = <<>>
    THEN /\ spc' = "get"
         /\ hist' = h
         /\ UNCHANGED <<data, clickhouse_queue>>
    ELSE LET item == clickhouse_queue[Len(clickhouse_queue)]
             h1 == [h EXCEPT !.submitted = Append(@, item)]
         IN  /\ data' = item
             /\ clickhouse_queue' =
                  SubSeq(clickhouse_queue, 1, Len(clickhouse_queue) - 1)
             /\ IF closed
                THEN /\ spc' = "sleep"
                     /\ hist' = [h1 EXCEPT !.failed = @ \cup {item},
                                           !.lastInsert = "fail",
                                           !.delayed = FALSE,
                                           !.onClosed = @ \cup {"insert"}]
                ELSE /\ spc' = "execute"
                     /\ hist' = h1

\* The top of the while loop, up to its next await: get() returns at once
\* while the queue holds an item and waits otherwise; the item taken is
\* handed to clickhouse.execute, which raises at once on a closed session.
SinkLoopTop(h) ==
    IF clickhouse_queue = <<>>
    THEN /\ spc' = "get"
         /\ hist' = h
         /\ UNCHANGED <<data, clickhouse_queue>>
    ELSE LET item == Head(clickhouse_queue)
             h1 == [h EXCEPT !.submitted = Append(@, item)]
         IN  /\ data' = item
             /\ clickhouse_queue' = Tail(clickhouse_queue)
             /\ IF closed
                THEN /\ spc' = "sleep"
                     /\ hist' = [h1 EXCEPT !.failed = @ \cup {item},
                                           !.lastInsert = "fail",
                                           !.delayed = FALSE,
                                           !.onClosed = @ \cup {"insert"}]
                ELSE /\ spc' = "execute"
                     /\ hist' = h1

\* The task starts.
SinkStart ==
    /\ spc = "start"
    /\ UNCHANGED pureVars
    /\ SinkLoopTop(hist)
    /\ UNCHANGED <<exportVars, runVars, stop_event, modemSession>>

\* An item has arrived: the waiting get() returns.
SinkGet ==
    /\ spc = "get"
    /\ UNCHANGED pureVars
    /\ clickhouse_queue # <<>>
    /\ SinkLoopTop(hist)
    /\ UNCHANGED <<exportVars, runVars, stop_event, modemSession>>

\* clickhouse.execute returns: the next iteration begins.
InsertOK ==
    SinkLoopTop([hist EXCEPT !.accepted = @ \cup {data}, !.lastInsert = "ok",
                             !.delayed = FALSE])

InsertDone ==
    /\ spc = "execute"
    /\ UNCHANGED pureVars
    /\ UNCHANGED <<exportVars, runVars, stop_event, modemSession>>
    /\ \/ InsertOK
       \/ InsertFailed(data, hist)

\* (mutant) after the sleep the same item is submitted again
SinkSleepDone_Retry ==
    /\ spc = "sleep"
    /\ UNCHANGED pureVars
    /\ spc' = "execute"
    /\ hist' = [hist EXCEPT !.delayed = TRUE, !.submitted = Append(@, data)]
    /\ UNCHANGED <<data, clickhouse_queue, exportVars, runVars, stop_event,
                   modemSession>>

\* The 5 s sleep ends: the next iteration begins.
SinkSleepDone ==
    /\ spc = "sleep"
    /\ UNCHANGED pureVars
    /\ SinkLoopTop([hist EXCEPT !.delayed = TRUE])
    /\ UNCHANGED <<exportVars, runVars, stop_event, modemSession>>

\* --------------------------------------------------- MB8600.run, the process
\* SIGTERM: sigterm_handler sets the stop event.
Signal ==
    /\ ~stop_event
    /\ UNCHANGED pureVars
    /\ rpc # "done"
    /\ stop_event' = TRUE
    /\ hist' = [hist EXCEPT !.stopBy = "signal"]
    /\ UNCHANGED <<exportVars, sinkVars, runVars, clickhouse_queue, modemSession>>

\* stop_event.wait() returns and the ClientSession is closed.
RunStop ==
    /\ rpc = "wait"
    /\ UNCHANGED pureVars
    /\ stop_event
    /\ rpc' = "closing"
    /\ closed' = TRUE
    /\ UNCHANGED <<exportVars, sinkVars, stop_event, clickhouse_queue,
                   modemSession, hist>>

\* Inside the try statement of the poll loop a CancelledError runs the
\* finally clause, whose sleep the stopped event loop never ends.
InTry == epc \in {"poll", "put", "reauth_challenge", "reauth_login",
                  "reauth_sleep", "except_sleep"}

\* session.close() returns; both tasks are cancelled, run() returns and the
\* event loop stops after delivering the cancellations.
RunCancel ==
    /\ rpc = "closing"
    /\ UNCHANGED pureVars
    /\ rpc' = "done"
    /\ epc' = IF InTry THEN "cancel_sleep"
              ELSE IF epc = "returned" THEN "returned" ELSE "cancelled"
    /\ spc' = "cancelled"
    /\ pending' = None
    /\ request' = NoRequest
    /\ login_frame' = NoFrame
    /\ hist' = [hist EXCEPT !.cancelled = TRUE]
    /\ UNCHANGED <<modem_hnap_session, modem_cookies, cycle, loginCalls, data,
                   closed, stop_event, clickhouse_queue, modemSession>>

\* ---------------------------------------------------------------- the modem
\* The modem drops the session it holds.
SessionExpires ==
    /\ modemSession # None
    /\ UNCHANGED pureVars
    /\ rpc # "done"
    /\ modemSession' = None
    /\ UNCHANGED <<exportVars, sinkVars, runVars, stop_event, clickhouse_queue,
                   hist>>

\* -------------------------------------------------------------------- Next
ExportNext ==
    \/ ExportStart
    \/ ChallengeResponse
    \/ LoginResponse
    \/ PollResponse
    \/ QueuePut
    \/ ReauthSleepDone
    \/ ExceptSleepDone
    \/ FinallySleepDone

SinkNext ==
    \/ SinkStart
    \/ SinkGet
    \/ InsertDone
    \/ SinkSleepDone

Next ==
    \/ ExportNext
    \/ SinkNext
    \/ Signal
    \/ RunStop
    \/ RunCancel
    \/ SessionExpires

Spec == Init /\ [][Next]_vars

\* The event loop resumes a task that is ready: a putter woken by the queue
\* goes on, the sink writer's sleep ends, its get() returns once an item is
\* there, and every submission is answered, by success or by an error.
FairSpec == Spec /\ WF_vars(QueuePut) /\ WF_vars(SinkNext)

\* --------------------------------------------- the parsers on their own
\* export()'s try body after a response with result 'OK', stage by stage:
\* the downstream loop, the upstream loop, the uptime, the row.
ParseStart(input) ==
    [stage |-> "response", at |-> "none", input |-> input,
     downstream_channels |-> <<>>, upstream_channels |-> <<>>, uptime |-> 0,
     row |-> <<>>, error |-> "none"]

\* at: the piece of the try body that ran last
ParseRaised(at, e) ==
    parse' = [parse EXCEPT !.stage = "raised", !.at = at, !.error = e]

DownstreamParsed ==
    /\ parse.stage = "response"
    /\ LET r == ParseDownstream(Response(parse.input))
       IN  IF r.error # "none"
           THEN ParseRaised("downstream", r.error)
           ELSE parse' = [parse EXCEPT !.stage = "downstream",
                                       !.at = "downstream",
                                       !.downstream_channels = r.value]
    /\ UNCHANGED <<pipelineVars, hnap>>

UpstreamParsed ==
    /\ parse.stage = "downstream"
    /\ LET r == ParseUpstream(Response(parse.input))
       IN  IF r.error # "none"
           THEN ParseRaised("upstream", r.error)
           ELSE parse' = [parse EXCEPT !.stage = "upstream", !.at = "upstream",
                                       !.upstream_channels = r.value]
    /\ UNCHANGED <<pipelineVars, hnap>>

UptimeParsed ==
    /\ parse.stage = "upstream"
    /\ LET r == ParseUptime(Response(parse.input))
       IN  IF r.error # "none"
           THEN ParseRaised("uptime", r.error)
           ELSE parse' = [parse EXCEPT !.stage = "uptime", !.at = "uptime",
                                       !.uptime = r.value]
    /\ UNCHANGED <<pipelineVars, hnap>>

RowBuilt ==
    /\ parse.stage = "uptime"
    /\ LET r == BuildRow(Response(parse.input), parse.downstream_channels,
                         parse.upstream_channels, parse.uptime)
       IN  IF r.error # "none"
           THEN ParseRaised("row", r.error)
           ELSE parse' = [parse EXCEPT !.stage = "put", !.at = "row",
                                       !.row = r.value]
    /\ UNCHANGED <<pipelineVars, hnap>>

ParseInit ==
    /\ PipelineInit
    /\ hnap = NoHnap
    /\ \E input \in ParseInputs : parse = ParseStart(input)

ParseNext ==
    \/ DownstreamParsed
    \/ UpstreamParsed
    \/ UptimeParsed
    \/ RowBuilt

ParseSpec == ParseInit /\ [][ParseNext]_vars

\* ------------------------------------------ the auth header on its own
\* The clock moves on.
Tick ==
    /\ hnap.stage = "on"
    /\ \E t \in ClockValues :
         /\ NotAfter(hnap.now, t)
         /\ t # hnap.now
         /\ hnap' = [hnap EXCEPT !.now = t]
    /\ UNCHANGED <<pipelineVars, parse>>

\* generate_hnap_auth() is called, by login() or by export().
GenerateHnapAuth ==
    /\ hnap.stage = "on"
    /\ Len(hnap.calls) < MaxCalls
    /\ \E call \in {<<"Login", withoutloginkey>>,
                     <<"GetMultipleHNAPs", generate_private_key(1, 1)>>} :
       LET soap_action == call[1]
           private_key == call[2]
       IN  hnap' = [hnap EXCEPT !.calls =
                      Append(@, [clock |-> hnap.now,
                                 key |-> private_key,
                                 Hnap_auth |-> generate_hnap_auth_at(
                                     hnap.now, soap_action, private_key)])]
    /\ UNCHANGED <<pipelineVars, parse>>

AuthInit ==
    /\ PipelineInit
    /\ parse = NoParse
    /\ \E t \in ClockValues : hnap = [stage |-> "on", now |-> t, calls |-> <<>>]

AuthNext ==
    \/ Tick
    \/ GenerateHnapAuth

AuthSpec == AuthInit /\ [][AuthNext]_vars

\* ================================================================ properties
LoopStates == {"poll", "put", "reauth_challenge", "reauth_login", "reauth_sleep",
               "except_sleep", "finally_sleep"}

\* C1: a cycle whose combined result is not 'OK' calls login() exactly once
\* and puts no record on the queue.  hist.result and hist.logins are reset
\* only by the next poll request, so the count holds from the rejection up
\* to that request, whether the re-login succeeds or raises.
C1_ReauthLoginOnceNoRecord ==
    hist.result = "notOK" =>
        /\ hist.logins = 1
        /\ cycle \notin hist.parsed
        /\ cycle \notin Range(hist.enqueued)
        /\ pending = None

\* A rejected poll whose re-login succeeded, at the sleep before the next poll.
C1_Witness ==
    /\ hist.result = "notOK"
    /\ epc = "finally_sleep"
    /\ loginCalls \in hist.okLogins

\* C2 (as claimed): a modem that accepts exactly the credentials of its
\* current session rejects a poll only when the stored session is not the one
\* it holds; so after a successful re-login, and no further expiry, the next
\* poll is answered 'OK'.
C2_RejectedOnlyWhenExpired ==
    (hist.result = "notOK" /\ epc = "reauth_challenge") =>
        \/ modemSession = None
        \/ modem_hnap_session # ContextOf(modemSession)

\* C3: while no login() has succeeded no poll has been issued and nothing has
\* been enqueued; once the first login() has raised, the stop event is set
\* and export() has returned.
C3_InitialLoginFailureFatal ==
    /\ hist.okLogins = {} =>
          /\ cycle = 0
          /\ request = NoRequest
          /\ hist.enqueued = <<>>
          /\ epc \notin LoopStates
    /\ (hist.okLogins = {} /\ hist.badLogins # {}) =>
          /\ stop_event
          /\ epc = "returned"

\* The first login() raised with no signal received: export() set the event.
C3_Witness ==
    /\ hist.okLogins = {}
    /\ hist.badLogins # {}
    /\ hist.stopBy = "export"

\* C4: after the initial login has succeeded, export() never returns and
\* never sets the stop event: until it is cancelled it is in its loop,
\* whatever failed in a cycle.
C4_CycleFailuresNotFatal ==
    hist.okLogins # {} =>
        /\ hist.stopBy # "export"
        /\ epc # "returned"
        /\ ~hist.cancelled => epc \in LoopStates

\* A re-login has raised, and a later cycle's poll is in flight.
C4_Witness ==
    /\ hist.okLogins # {}
    /\ hist.badLogins # {}
    /\ hist.result = "none"
    /\ epc = "poll"
    /\ ~stop_event

\* C5 (as claimed): exactly one interval sleep separates two consecutive
\* poll cycles.
C5_OneSleepBetweenCycles ==
    cycle >= 2 => hist.gap = 1

C8_BoundedQueueBlocks ==
    /\ Len(clickhouse_queue) <= clickhouse_queue_limit
    /\ epc = "put" =>
          /\ pending = cycle
          /\ pending \notin Range(hist.enqueued)
          /\ request = NoRequest
    /\ \A c \in hist.parsed :
          \/ c \in Range(hist.enqueued)
          \/ epc = "put" /\ pending = c
          \/ hist.cancelled
    /\ Len(hist.submitted) + Len(clickhouse_queue) = Len(hist.enqueued)
    /\ (spc = "get" /\ clickhouse_queue = <<>>) =>
          Len(hist.submitted) = Len(hist.enqueued)

\* The poll loop waits in put() on a full queue.
C8_Witness ==
    /\ epc = "put"
    /\ Len(clickhouse_queue) = clickhouse_queue_limit
    /\ pending # None

\* C9: a put() that is blocked goes through: its record is enqueued, unless
\* the process is stopped first; the sink may fail as often as it likes.
C9_BlockedPutResumes ==
    \A c \in 1..MaxCycles :
        (epc = "put" /\ pending = c) ~> (c \in Range(hist.enqueued) \/ hist.cancelled)

\* The poll loop is blocked while the writer sleeps after a failed submission.
C9_Witness ==
    /\ epc = "put"
    /\ Len(clickhouse_queue) = clickhouse_queue_limit
    /\ spc = "sleep"
    /\ hist.lastInsert = "fail"

\* C10 (as claimed): outside a running login(), the stored session data is
\* that of a handshake whose login request was answered 'OK'.
C10_StoredContextFromSuccessfulLogin ==
    (hist.okLogins # {} /\ epc \notin {"reauth_challenge", "reauth_login"}) =>
        \E h \in hist.okLogins : modem_hnap_session = ContextOf(h)

\* C11 (as claimed): once the supervisor has cancelled the two tasks, both
\* come to an end: export() has returned or ended on its CancelledError,
\* and so has insert_into_clickhouse().
C11_CancelledTasksTerminate ==
    hist.cancelled ~> (epc \in {"cancelled", "returned"} /\ spc = "cancelled")

IsPrefix(s, t) ==
    /\ Len(s) <= Len(t)
    /\ \A i \in 1..Len(s) : s[i] = t[i]

\* C16: the records are handed to the sink in the order they were enqueued,
\* which is the order of their poll cycles: what was submitted is the front
\* of what was enqueued and the queue holds the rest, in order, whatever
\* failed in the sink and however long a put() was blocked.
C16_SubmittedInEnqueueOrder ==
    /\ IsPrefix(hist.submitted, hist.enqueued)
    /\ hist.enqueued = hist.submitted \o clickhouse_queue
    /\ \A i, j \in 1..Len(hist.enqueued) :
          i < j => hist.enqueued[i] < hist.enqueued[j]

\* A record was submitted after one whose submission failed, while the poll
\* loop waits in put() on the full queue.
C16_Witness ==
    /\ Len(hist.submitted) >= 2
    /\ hist.submitted[1] \in hist.failed
    /\ epc = "put"

\* C17 (as claimed): a status poll in flight carries the uid and PrivateKey
\* of the session context stored last, and a header signed with that
\* context's private key.
C17_PollCredentialsCurrent ==
    epc = "poll" =>
        /\ request.uid = modem_hnap_session.uid
        /\ request.PrivateKey = modem_hnap_session.private_key
        /\ request.Hnap_auth =
             generate_hnap_auth("GetMultipleHNAPs", modem_hnap_session.private_key)

\* C18: while login() waits for its challenge response the request in flight
\* is the challenge request, signed with the placeholder key; a login request
\* is in flight only after the challenge response of this very handshake was
\* received, and its cookies, header key and password are the ones derived
\* from that response, not from an earlier handshake.
C18_LoginAfterOwnChallenge ==
    LET r == ChallengeOf(loginCalls)
        k == generate_private_key(r.PublicKey, r.Challenge)
    IN  /\ epc \in {"init_challenge", "reauth_challenge"} =>
              /\ login_frame = ChallengeRequest
              /\ login_frame.Hnap_auth = HMAC(withoutloginkey, SoapAction("Login"))
              /\ loginCalls \notin hist.challenges
        /\ epc \in {"init_login", "reauth_login"} =>
              /\ loginCalls \in hist.challenges
              /\ login_frame.uid = r.Cookie
              /\ login_frame.PrivateKey = k
              /\ login_frame.Hnap_auth = generate_hnap_auth("Login", k)
              /\ login_frame.LoginPassword = generate_login_password(k, r.Challenge)
              /\ \A h \in 1..(loginCalls - 1) :
                    /\ login_frame.uid # ContextOf(h).uid
                    /\ login_frame.PrivateKey # ContextOf(h).private_key
                    /\ login_frame.Hnap_auth # ContextOf(h).hnap_auth
                    /\ login_frame.LoginPassword # ContextOf(h).login_password
        /\ login_frame \notin {NoFrame, ChallengeRequest} =>
              epc \in {"init_login", "reauth_login"}

\* The login request of a re-login is in flight, after an earlier handshake
\* was completed.
C18_Witness ==
    /\ epc = "reauth_login"
    /\ hist.okLogins # {}
    /\ loginCalls >= 2

\* C20 (as claimed): no poll, login or sink submission is attempted on the
\* ClientSession once it is closed.
C20_NothingOnClosedClient ==
    hist.onClosed = {}


\* The current cycle's poll was answered 'OK' with a response that parses.
CycleSucceeded ==
    /\ hist.result = "OK"
    /\ hist.payload # 0
    /\ ParseResponse(Response(SamplePayloads[hist.payload])).error = "none"

\* C12: no record is enqueued twice, every record enqueued or held by a
\* blocked put() is the row of a response that parsed, and the current
\* cycle has its one record enqueued (or in the hand of its blocked put(),
\* which a cancellation ends) exactly if its poll was answered 'OK' and the
\* response parsed: a malformed segment, a bad uptime string, a missing
\* field or a transport error leaves nothing of the cycle on the queue.
C12_OneRecordPerSuccessfulCycle ==
    /\ \A i, j \in 1..Len(hist.enqueued) :
          i # j => hist.enqueued[i] # hist.enqueued[j]
    /\ \A r \in Range(hist.enqueued) : r \in hist.parsed
    /\ pending # None => pending \in hist.parsed /\ pending \notin Range(hist.enqueued)
    /\ CycleSucceeded =>
          \/ cycle \in Range(hist.enqueued)
          \/ pending = cycle /\ epc = "put"
          \/ hist.cancelled
    /\ (cycle >= 1 /\ ~CycleSucceeded) =>
          /\ cycle \notin Range(hist.enqueued)
          /\ pending # cycle
          /\ cycle \notin hist.parsed

\* After a record was enqueued, a later cycle is aborted by its response's
\* uptime string, with the earlier record still the only one of its cycle.
C12_Witness ==
    /\ Len(hist.enqueued) >= 1
    /\ hist.result = "OK"
    /\ hist.payload = 3
    /\ epc = "except_sleep"

\* days*86400 + hours*3600 + minutes*60 + seconds, an absent group counted
\* as 0.
UptimeOf(groups) ==
    groups[1].digits * 86400 + groups[2].digits * 3600
        + groups[3].digits * 60 + groups[4].digits

\* C13 (as claimed): for an uptime string with at least one of its groups
\* present, the uptime is parsed without an exception and is the sum of the
\* groups, the absent ones counted as zero.
C13_MissingGroupsAreZero ==
    (/\ parse.at = "uptime"
     /\ \E i \in 1..4 : parse.input.uptime[i].present)
        => /\ parse.stage = "uptime"
           /\ parse.uptime = UptimeOf(parse.input.uptime)

\* The raw SNR of a segment, in hundredths of a dB.
RawSnr(d) == d.snr[1] * 100 + d.snr[2] * 10

\* C15: every entry the downstream loop appended carries its segment's raw
\* SNR times 2.5 if the segment's modulation is 'OFDM PLC' and the raw SNR
\* is below 20.0, and the raw SNR itself in every other case; 15.0 becomes
\* 37.5 and 25.0 stays 25.0.
C15_SnrCorrectedOnlyForLowOfdm ==
    \A i \in 1..Len(parse.downstream_channels) :
        LET d == parse.input.downstream[i]
            out == parse.downstream_channels[i].snr
        IN  /\ IF d.modulation = "OFDM PLC" /\ RawSnr(d) < 2000
               THEN 2 * out = 5 * RawSnr(d)
               ELSE out = RawSnr(d)
            /\ (d.modulation = "OFDM PLC" /\ d.snr = <<15, 0>>) => out = 3750
            /\ (d.modulation = "OFDM PLC" /\ d.snr = <<25, 0>>) => out = 2500

\* A response was parsed whose two downstream channels are 'OFDM PLC' at
\* 15.0 and at 25.0.
C15_Witness ==
    /\ parse.stage = "put"
    /\ Len(parse.downstream_channels) = 2
    /\ parse.input.downstream[1].modulation = "OFDM PLC"
    /\ parse.input.downstream[1].snr = <<15, 0>>
    /\ parse.downstream_channels[1].snr = 3750
    /\ parse.input.downstream[2].snr = <<25, 0>>
    /\ parse.downstream_channels[2].snr = 2500

WellFormed(segments) ==
    /\ Len(segments) >= 1
    /\ \A i \in 1..Len(segments) : segments[i].shape = "ok"

\* C19: a response of n >= 1 and m >= 1 well-formed segments (its other
\* fields in order) comes to a row, and every row has one downstream entry
\* for each of the n segments and one upstream entry for each of the m, in
\* the segments' order; an empty channel string raises and comes to no row.
C19_ChannelListsMatchSegments ==
    LET n == Len(parse.input.downstream)
        m == Len(parse.input.upstream)
    IN  /\ parse.stage = "put" =>
              /\ n >= 1 /\ m >= 1
              /\ Len(parse.row.downstream_channels) = n
              /\ Len(parse.row.upstream_channels) = m
              /\ \A i \in 1..n : parse.row.downstream_channels[i].channel_id
                                     = parse.input.downstream[i].id
              /\ \A i \in 1..m : parse.row.upstream_channels[i].channel_id
                                     = parse.input.upstream[i].id
        /\ (/\ parse.stage \in {"put", "raised"}
            /\ WellFormed(parse.input.downstream)
            /\ WellFormed(parse.input.upstream)
            /\ parse.input.uptime = FullUptime
            /\ parse.input.missing = {}) => parse.stage = "put"
        /\ (parse.stage \in {"put", "raised"} /\ (n = 0 \/ m = 0)) =>
              /\ parse.stage = "raised"
              /\ parse.error = "ValueError"

\* A row was built from two different downstream and two different upstream
\* segments.
C19_Witness ==
    /\ parse.stage = "put"
    /\ Len(parse.row.downstream_channels) = 2
    /\ Len(parse.row.upstream_channels) = 2
    /\ parse.input.downstream[1].id # parse.input.downstream[2].id
    /\ parse.input.upstream[1].id # parse.input.upstream[2].id


\* C14 (as claimed): of two headers generated at clock values in increasing
\* order, the later one's timestamp suffix is not the smaller.
C14_SuffixNonDecreasing ==
    \A i, j \in 1..Len(hnap.calls) :
        i < j => NotAfter(hnap.calls[i].Hnap_auth.time, hnap.calls[j].Hnap_auth.time)

\* C14 (amended): the suffix is the clock value reduced modulo 2 * 10^12 and
\* the HMAC message carries that same reduced value under the caller's key;
\* of two headers generated in increasing clock time with no multiple of
\* 2 * 10^12 ms between their clock values, the later one's suffix is not
\* the smaller.
C14_SuffixMonotoneWithinWindow ==
    /\ \A i \in 1..Len(hnap.calls) :
          LET c == hnap.calls[i]
          IN  /\ c.Hnap_auth.time = Reduce(c.clock)
              /\ c.Hnap_auth.time.hi < 2000000
              /\ c.Hnap_auth.auth.msg.time = c.Hnap_auth.time
              /\ c.Hnap_auth.auth.key = c.key
    /\ \A i, j \in 1..Len(hnap.calls) :
          (/\ i < j
           /\ hnap.calls[i].clock.hi \div 2000000 = hnap.calls[j].clock.hi \div 2000000)
              => NotAfter(hnap.calls[i].Hnap_auth.time, hnap.calls[j].Hnap_auth.time)

\* Two headers were generated at different clock values past the
\* 2 * 10^12 ms mark, after one generated before it.
C14_Witness ==
    /\ Len(hnap.calls) = 3
    /\ hnap.calls[1].clock.hi < 2000000
    /\ hnap.calls[2].clock.hi >= 2000000
    /\ hnap.calls[2].clock # hnap.calls[3].clock
    /\ hnap.calls[3].Hnap_auth.time # hnap.calls[3].clock

====
